---- MODULE Spec2Model ----
(***************************************************************************)
(* Model of the OpenClaw monitor's Inbox Router (src/monitor/monitor.js,   *)
(* processInbox) together with the environment it talks to: the inbox      *)
(* directory, the asynchronous `exec` completion callbacks and the spawned *)
(* workers that write a terminal status into their task file.              *)
(***************************************************************************)
EXTENDS Integers, Sequences, FiniteSets, TLC

\* ------------------------------------------------------------------------
\* Bounds of the model
\* ------------------------------------------------------------------------
NumFiles == 2       \* directory entries of tasks/inbox, in readdir order
MaxAgents == 1      \* length of the worker list handed to processInbox
ScanFiles == 3      \* directory entries of the inbox in SpecScan
MaxTime == 1        \* file modification times in SpecScan run over 0..MaxTime
MaxSessions == 2    \* sessions in sessions.json in SpecTick
RegistryNow == 4000000  \* Date.now() of the registry read in SpecTick
MaxRuns == 2        \* runs of updateStatus in progress at once in SpecLoop
MaxPending == 2     \* publish requests awaiting their response in SpecLoop
MaxLineLen == 4     \* characters of a short first line in SpecTitle

\* Constants of the program
ActiveWindowMs == 300000   \* const isActive = ageMs < 300000
DoneAfterMs == 120000      \* now - session.updatedAt > 120000
HideAfterMs == 3600000     \* now - session.updatedAt > 3600000
SleepMs == 1000            \* await sleep(1000)
MAX_FAILURES_BEFORE_ALERT == 3
retries == 3
TitleMaxLen == 50          \* firstLine.trim().substring(0, 50)
MainKey == "agent:main:main"
MainSessionId == "5907ddda-6411-4999-9578-7e841f351d63"
PrimaryLabel == "yangyang"   \* the primary session's display name, in pinyin

FileIds == 1..NumFiles

\* ------------------------------------------------------------------------
\* Task file content.  Only the two metadata lines the router's regular
\* expressions look at are kept: the status line (is the key there, how is
\* the value quoted, which word is it) and the word of the type line.
\* ------------------------------------------------------------------------
NoStatusLine == [key |-> FALSE, quote |-> "", word |-> ""]
StatusLine(q, w) == [key |-> TRUE, quote |-> q, word |-> w]
NoContent == [status |-> NoStatusLine, type |-> ""]

\* What the (external) task creator writes: `status: pending`, or a file
\* without status metadata; typed coding or untyped.
CreatedStatusLines == {StatusLine("", "pending"), NoStatusLine}
CreatedTypes == {"", "coding"}
CreatedContents == [status : CreatedStatusLines, type : CreatedTypes]

\* A directory entry: absent, a non-.md entry, an .md entry that cannot be
\* stat'ed or read (statSync / readFileSync throw), or a readable task file.
AbsentEntry == [kind |-> "absent", content |-> NoContent, mtime |-> 0]
OtherEntry == [kind |-> "other", content |-> NoContent, mtime |-> 0]
BrokenEntry == [kind |-> "broken", content |-> NoContent, mtime |-> 0]
TaskEntry(c, t) == [kind |-> "task", content |-> c, mtime |-> t]

\* The worker list: what processInbox reads of each agent.
WorkerSnapshots == [label : {"tech_team", "handyman"}, status : {"active", "idle"}]
AgentLists == UNION {[1..n -> WorkerSnapshots] : n \in 0..MaxAgents}

VARIABLES
    inboxExists,   \* fs.existsSync(INBOX_PATH)
    files,         \* the directory entries of the inbox
    now,           \* the clock (Date.now, file mtimes); Spec lets all its
                   \* events happen at one instant
    inflight,      \* exec calls whose completion callback has not run yet
    lastWrite,     \* lastWrite[f]: the Router's last write to file f; while a
                   \* call's results are in use, "retry" marks a dispatch
                   \* that follows a rollback
    preDispatch,   \* preDispatch[f]: what file f held when the scan that
                   \* dispatched it last read it
    returned,      \* a processInbox call has just returned
    agents,        \* argument of the processInbox call that just returned
    tasks,         \* the list it returned
    requests,      \* the exec calls it issued
    threw,         \* it logged 'processInbox error'
    registry,      \* Object.values of sessions.json, in the file's order
    sessionTasks,  \* what the tick's getTasks call resolved to
    publish,       \* the publish request the tick issued, if it issued one
    runs,          \* the runs of updateStatus in progress: the await each
                   \* is suspended at, in the order they were started
    consecutiveFailures,
    pending,       \* publish requests whose response has not come yet
    sinceReset,    \* publish failures recorded since the last successful
                   \* response and since the last alert
    event,         \* what the last step of the loop was
    taskFile,      \* a task file: its name and its text
    title,         \* the title derived for it
    config,        \* the health check script: CONFIG and its environment
    checkAt,       \* where the run of runHealthCheck stands
    attempt,       \* the loop variable of runHealthCheck
    openChecks,    \* checkHealth requests that are not answered yet
    history,       \* what the run has done so far, in order: "attempt"
                   \* for a request of checkHealth, then what it came to,
                   \* "sleep", "alert" for the alert request, ...
    checkResult    \* what runHealthCheck resolved to

vars == <<inboxExists, files, now, inflight, lastWrite, preDispatch,
          returned, agents, tasks, requests, threw,
          registry, sessionTasks, publish,
          runs, consecutiveFailures, pending, sinceReset, event,
          taskFile, title,
          config, checkAt, attempt, openChecks, history, checkResult>>

\* What one updateStatus run adds to a processInbox call.
tickVars == <<registry, sessionTasks, publish>>

\* What the scheduling loop and the health check add.
loopVars == <<runs, consecutiveFailures, pending, sinceReset, event>>

\* What the derivation of a title reads and gives.
titleVars == <<taskFile, title>>

\* What the health check script adds.
checkVars == <<config, checkAt, attempt, openChecks, history, checkResult>>

\* What the monitor, not the health check script, works on.
monitorVars == <<inboxExists, files, now, inflight, lastWrite, preDispatch,
                 returned, agents, tasks, requests, threw,
                 registry, sessionTasks, publish,
                 runs, consecutiveFailures, pending, sinceReset, event,
                 taskFile, title>>

\* The health check script before it is run.
NoConfig == [telegramBotToken |-> FALSE, telegramChatId |-> FALSE,
             urlSupported |-> FALSE, telegramAnswers |-> FALSE]
NoResult == [reported |-> FALSE, healthy |-> FALSE, attempts |-> 0]

\* ------------------------------------------------------------------------
\* processInbox, per file
\* ------------------------------------------------------------------------
\* content.match(/status:\s*["']?(\w+)["']?/), then `statusMatch ? [1] : 'unknown'`
parseStatus(content) ==
    IF content.status.key THEN content.status.word ELSE "unknown"

\* content.match(/type:\s*["']?(\w+)["']?/), then `typeMatch ? [1] : 'general'`
parseType(content) ==
    IF content.type = "" THEN "general" ELSE content.type

targetLabel(type) == IF type = "coding" THEN "tech_team" ELSE "handyman"

targetModel(type) ==
    IF type = "coding" THEN "google-antigravity/claude-opus-4-5-thinking"
    ELSE "google-antigravity/gemini-3-pro-high"

\* agents.some(a => a.label === targetLabel && a.status === 'active')
isBusy(agentList, label) ==
    \E i \in 1..Len(agentList) :
        agentList[i].label = label /\ agentList[i].status = "active"

\* A dispatch write that leaves the status line as it was.
newContentUnchanged(content) == content

\* content.replace(/status:\s*["']?pending["']?/, 'status: "dispatched"')
newContent(content) ==
    IF content.status.key /\ content.status.word = "pending"
    THEN [content EXCEPT !.status = StatusLine("\"", "dispatched")]
    ELSE content

\* The exec call of one dispatch: the spawn command's label and model, and
\* the `content` the callback's closure keeps for the rollback.  onDisk is
\* the status the task file reads at the moment exec is called.
Request(f, content, onDisk) ==
    [file |-> f,
     label |-> targetLabel(parseType(content)),
     model |-> targetModel(parseType(content)),
     content |-> content,
     onDisk |-> onDisk]

\* tasks.push({id: `inbox-${file}`, title, status, updatedAt})
TaskView(f, status, updatedAt) ==
    [id |-> f, status |-> status, updatedAt |-> updatedAt]

\* fs.writeFileSync(filePath, newContent)
writeDispatched(st, f, content, t) ==
    [st EXCEPT !.files[f] = TaskEntry(newContent(content), t)]

\* exec(cmd, callback)
execSpawn(st, f, content) ==
    [st EXCEPT !.requests =
        Append(@, Request(f, content, parseStatus(st.files[f].content)))]

\* tasks.push of the dispatch branch
pushDispatched(st, f, t) ==
    [st EXCEPT !.tasks = Append(@, TaskView(f, "dispatched", t))]

\* A dispatch branch that calls exec before it writes the file.
dispatchExecFirst(st, f, t) ==
    LET content == st.files[f].content
    IN  pushDispatched(writeDispatched(execSpawn(st, f, content), f, content, t), f, t)

\* The dispatch branch: write the file as dispatched, issue the exec call,
\* list the task as dispatched at Date.now().
dispatch(st, f, t) ==
    LET content == st.files[f].content
    IN  pushDispatched(execSpawn(writeDispatched(st, f, content, t), f, content), f, t)

\* The list-only branch: the task is shown with the status read from the
\* file and the file's modification time.
listOnly(st, f) ==
    LET entry == st.files[f]
    IN  [st EXCEPT
            !.tasks = Append(@, TaskView(f, parseStatus(entry.content), entry.mtime))]

\* One iteration of `for (const file of files)`.  st is the state of the
\* scan so far: the directory, the accumulated list, the exec calls issued,
\* and whether an exception has left the loop.
processFile(st, f, agentList, t) ==
    LET entry == st.files[f]
        content == entry.content
    IN  CASE entry.kind = "absent" -> st
          [] entry.kind = "other" -> st
          [] entry.kind = "broken" -> [st EXCEPT !.threw = TRUE]
          [] OTHER ->
                IF /\ parseStatus(content) = "pending"
                   /\ ~isBusy(agentList, targetLabel(parseType(content)))
                THEN dispatch(st, f, t)
                ELSE listOnly(st, f)

\* The loop over readdirSync's entries; an exception ends it.
RECURSIVE scanFrom(_, _, _, _)
scanFrom(st, f, agentList, t) ==
    IF f \notin DOMAIN st.files \/ st.threw
    THEN st
    ELSE scanFrom(processFile(st, f, agentList, t), f + 1, agentList, t)

\* The sort with its comparator turned round (b.updatedAt - a.updatedAt).
RECURSIVE insertSortedDescending(_, _)
insertSortedDescending(sorted, x) ==
    IF sorted = <<>> THEN <<x>>
    ELSE IF x.updatedAt - sorted[Len(sorted)].updatedAt > 0
         THEN Append(insertSortedDescending(SubSeq(sorted, 1, Len(sorted) - 1), x),
                     sorted[Len(sorted)])
         ELSE Append(sorted, x)

\* tasks.sort((a, b) => a.updatedAt - b.updatedAt): a stable sort.
RECURSIVE insertSorted(_, _)
insertSorted(sorted, x) ==
    IF sorted = <<>> THEN <<x>>
    ELSE IF sorted[Len(sorted)].updatedAt - x.updatedAt > 0
         THEN Append(insertSorted(SubSeq(sorted, 1, Len(sorted) - 1), x),
                     sorted[Len(sorted)])
         ELSE Append(sorted, x)

RECURSIVE sortTasks(_)
sortTasks(list) ==
    IF list = <<>> THEN <<>>
    ELSE insertSorted(sortTasks(SubSeq(list, 1, Len(list) - 1)), list[Len(list)])

\* processInbox without the existsSync test: readdirSync throws on a missing
\* directory and the catch block logs it.
processInboxNoExistsCheck(exists, dir, agentList, t) ==
    LET start == [files |-> dir, tasks |-> <<>>, requests |-> <<>>, threw |-> FALSE]
    IN  IF ~exists THEN [start EXCEPT !.threw = TRUE]
        ELSE LET scanned == scanFrom(start, 1, agentList, t)
             IN  IF scanned.threw THEN scanned
                 ELSE [scanned EXCEPT !.tasks = sortTasks(@)]

\* processInbox(agents): the result of one call on directory `dir` at time t.
processInbox(exists, dir, agentList, t) ==
    LET start == [files |-> dir, tasks |-> <<>>, requests |-> <<>>, threw |-> FALSE]
    IN  IF ~exists THEN start
        ELSE LET scanned == scanFrom(start, 1, agentList, t)
             IN  IF scanned.threw THEN scanned
                 ELSE [scanned EXCEPT !.tasks = sortTasks(@)]

\* ------------------------------------------------------------------------
\* The title of a listed task
\* ------------------------------------------------------------------------
\* A line is a sequence of characters; the text of a file is the sequence of
\* lines content.split('\n') gives, which has at least one element.  A file
\* name is a sequence of pieces in which ".md" is one piece.
RECURSIVE trimStart(_)
trimStart(line) ==
    IF line # <<>> /\ Head(line) = " " THEN trimStart(Tail(line)) ELSE line

RECURSIVE trimEnd(_)
trimEnd(line) ==
    IF line # <<>> /\ line[Len(line)] = " "
    THEN trimEnd(SubSeq(line, 1, Len(line) - 1))
    ELSE line

\* line.trim()
trim(line) == trimEnd(trimStart(line))

\* line.startsWith(prefix)
startsWith(line, prefix) ==
    Len(line) >= Len(prefix) /\ SubSeq(line, 1, Len(prefix)) = prefix

\* line.slice(n)
slice(line, n) == SubSeq(line, n + 1, Len(line))

\* line.substring(0, n)
substring0(line, n) == SubSeq(line, 1, IF Len(line) < n THEN Len(line) ELSE n)

\* file.replace('.md', ''): the first occurrence is taken out.
RECURSIVE replaceMd(_)
replaceMd(file) ==
    IF file = <<>> THEN <<>>
    ELSE IF Head(file) = ".md" THEN Tail(file)
    ELSE <<Head(file)>> \o replaceMd(Tail(file))

\* The text after the marker of a heading line.
headingText(line) ==
    IF startsWith(line, <<"#", " ">>) THEN trim(slice(line, 2))
    ELSE trim(slice(line, 3))

isHeading(line) ==
    startsWith(line, <<"#", " ">>) \/ startsWith(line, <<"#", "#", " ">>)

\* A title taken from the first heading line of the file, then from its
\* first line that is not blank.
RECURSIVE firstHeadingLine(_)
firstHeadingLine(content) ==
    IF content = <<>> THEN <<>>
    ELSE IF isHeading(Head(content)) THEN <<Head(content)>>
    ELSE firstHeadingLine(Tail(content))

RECURSIVE firstTextLine(_)
firstTextLine(content) ==
    IF content = <<>> THEN <<>>
    ELSE IF trim(Head(content)) # <<>> THEN <<Head(content)>>
    ELSE firstTextLine(Tail(content))

titleFromAnyLine(file, content) ==
    LET heading == firstHeadingLine(content)
        text == firstTextLine(content)
    IN  IF heading # <<>> THEN headingText(heading[1])
        ELSE IF text # <<>> THEN substring0(trim(text[1]), TitleMaxLen)
        ELSE replaceMd(file)

\* let title = file.replace('.md', ''); const firstLine = content.split('\n')[0];
\* if (firstLine.startsWith('# ')) ... else if (firstLine.startsWith('## ')) ...
\* else if (firstLine.trim()) title = firstLine.trim().substring(0, 50)
deriveTitle(file, content) ==
    LET firstLine == content[1]
    IN  IF startsWith(firstLine, <<"#", " ">>) THEN trim(slice(firstLine, 2))
        ELSE IF startsWith(firstLine, <<"#", "#", " ">>) THEN trim(slice(firstLine, 3))
        ELSE IF trim(firstLine) # <<>> THEN substring0(trim(firstLine), TitleMaxLen)
        ELSE replaceMd(file)

\* No file read yet, no title derived yet.
NoTaskFile == [file |-> <<>>, content |-> << <<>> >>]
NoTitle == [derived |-> FALSE, text |-> <<>>]

\* ------------------------------------------------------------------------
\* parseSessionsFile
\* ------------------------------------------------------------------------
\* A session of sessions.json is a record with the fields key, sessionId and
\* totalTokens, and with or without the fields label and updatedAt.
Has(record, field) == field \in DOMAIN record

\* const labelMapping = {...}; the Chinese display names are written in
\* pinyin.
labelMapping ==
    [coding_team |-> "chengshizu", dev_team |-> "kaifazu", handyman |-> "zagong"]

\* session.updatedAt || 0
updatedAtOrZero(session) ==
    IF Has(session, "updatedAt") THEN session.updatedAt ELSE 0

\* The classification with the boundary age counted as active.
isActiveInclusive(ageMs) == ageMs <= ActiveWindowMs

\* const isActive = ageMs < 300000
isActive(ageMs) == ageMs < ActiveWindowMs

\* The label as the forEach over the sessions computes it.
sessionLabel(session) ==
    LET label == IF Has(session, "label") THEN session.label ELSE "Unknown"
    IN  IF label \in DOMAIN labelMapping
        THEN labelMapping[label]
        ELSE IF session.sessionId = MainSessionId \/ session.key = MainKey
             THEN PrimaryLabel
             ELSE label

\* agents.push({key, label, status, ageMs, updatedAt, ...}); model, tokens
\* and sessionFile are carried along unread and left out.
agentOf(session, t) ==
    LET ageMs == t - updatedAtOrZero(session)
    IN  [key |-> session.sessionId,
         label |-> sessionLabel(session),
         status |-> IF isActive(ageMs) THEN "active" ELSE "idle",
         ageMs |-> ageMs]
        @@ (IF Has(session, "updatedAt")
            THEN [updatedAt |-> session.updatedAt]
            ELSE <<>>)

\* How many of the first n entries carry the label.
labelCount(list, label, n) ==
    Cardinality({i \in 1..n : list[i].label = label})

\* The two forEach passes that number the labels occurring more than once.
suffixLabels(list) ==
    [i \in DOMAIN list |->
        IF labelCount(list, list[i].label, Len(list)) > 1 /\ list[i].label # PrimaryLabel
        THEN [list[i] EXCEPT
                !.label = @ \o "-" \o ToString(labelCount(list, list[i].label, i))]
        ELSE list[i]]

\* The comparator of agents.sort
compareAgents(a, b) ==
    IF a.label = PrimaryLabel THEN -1
    ELSE IF b.label = PrimaryLabel THEN 1
    ELSE a.ageMs - b.ageMs

RECURSIVE insertAgent(_, _)
insertAgent(sorted, x) ==
    IF sorted = <<>> THEN <<x>>
    ELSE IF compareAgents(x, sorted[Len(sorted)]) < 0
         THEN Append(insertAgent(SubSeq(sorted, 1, Len(sorted) - 1), x),
                     sorted[Len(sorted)])
         ELSE Append(sorted, x)

RECURSIVE sortAgents(_)
sortAgents(list) ==
    IF list = <<>> THEN <<>>
    ELSE insertAgent(sortAgents(SubSeq(list, 1, Len(list) - 1)), list[Len(list)])

\* parseSessionsFile() called at time t on a registry holding the sessions
\* reg; a missing sessions.json is the empty registry.
parseSessionsFile(reg, t) ==
    sortAgents(suffixLabels([i \in DOMAIN reg |-> agentOf(reg[i], t)]))

\* ------------------------------------------------------------------------
\* getTasks
\* ------------------------------------------------------------------------
\* (a, b) => b.updatedAt - a.updatedAt; NaN when either has no updatedAt,
\* which sort takes as 0.
compareSessions(a, b) ==
    IF Has(a, "updatedAt") /\ Has(b, "updatedAt")
    THEN b.updatedAt - a.updatedAt
    ELSE 0

RECURSIVE insertSession(_, _)
insertSession(sorted, x) ==
    IF sorted = <<>> THEN <<x>>
    ELSE IF compareSessions(x, sorted[Len(sorted)]) < 0
         THEN Append(insertSession(SubSeq(sorted, 1, Len(sorted) - 1), x),
                     sorted[Len(sorted)])
         ELSE Append(sorted, x)

RECURSIVE sortSessions(_)
sortSessions(list) ==
    IF list = <<>> THEN <<>>
    ELSE insertSession(sortSessions(SubSeq(list, 1, Len(list) - 1)), list[Len(list)])

\* now - session.updatedAt > limit; false when updatedAt is missing (NaN)
olderThan(session, t, limit) ==
    Has(session, "updatedAt") /\ t - session.updatedAt > limit

\* const isDone = session.totalTokens > 0 && (now - session.updatedAt > 120000)
isDone(session, t) ==
    session.totalTokens > 0 /\ olderThan(session, t, DoneAfterMs)

\* tasks.push({id, title, status, updatedAt}); the title is left out.
sessionTask(session, t) ==
    [id |-> session.sessionId,
     status |-> IF isDone(session, t) THEN "done" ELSE "running"]
    @@ (IF Has(session, "updatedAt")
        THEN [updatedAt |-> session.updatedAt]
        ELSE <<>>)

\* What the async function resolves to: a list, or undefined.
Resolved(list) == [defined |-> TRUE, list |-> list]
Undefined == [defined |-> FALSE, list |-> <<>>]

\* The for-of loop from session i on, acc being the `tasks` pushed so far.
\* `continue` skips a done session older than an hour; `return;` at the
\* session with key agent:main:main leaves the function.
RECURSIVE getTasksFrom(_, _, _, _)
getTasksFrom(sessions, i, acc, t) ==
    IF i > Len(sessions)
    THEN Resolved(Append(acc, [id |-> "cron-daily", status |-> "scheduled", updatedAt |-> t]))
    ELSE IF isDone(sessions[i], t) /\ olderThan(sessions[i], t, HideAfterMs)
         THEN getTasksFrom(sessions, i + 1, acc, t)
         ELSE IF sessions[i].key = MainKey
              THEN Undefined
              ELSE getTasksFrom(sessions, i + 1, Append(acc, sessionTask(sessions[i], t)), t)

\* await getTasks() called at time t
getTasks(reg, t) == getTasksFrom(sortSessions(reg), 1, <<>>, t)

\* ------------------------------------------------------------------------
\* updateStatus from the merge to the publish request
\* ------------------------------------------------------------------------
NoPublish == [issued |-> FALSE, tasks |-> <<>>]

\* const allTasks = [...inboxTasks, ...tasks] throws a TypeError when tasks
\* is undefined; allTasks.map(... t.updatedAt.toString() ...) throws one
\* when an entry has no updatedAt.  Otherwise https.request(...) is issued
\* with the list in its payload.
mergeAndPublish(inboxTasks, resolved) ==
    IF ~resolved.defined
    THEN NoPublish
    ELSE LET allTasks == inboxTasks \o resolved.list
         IN  IF \E i \in DOMAIN allTasks : ~Has(allTasks[i], "updatedAt")
             THEN NoPublish
             ELSE [issued |-> TRUE, tasks |-> allTasks]

\* ------------------------------------------------------------------------
\* Rollback and the worker's write
\* ------------------------------------------------------------------------
\* An error branch that leaves the file as the dispatch wrote it.
rollbackNothing(request) == newContent(request.content)

\* A rollback that edits the status line back instead of restoring the text.
rollbackByReplace(request) ==
    [newContent(request.content) EXCEPT !.status = StatusLine("\"", "pending")]

\* fs.writeFileSync(filePath, content) in the exec callback's error branch
rollbackContent(request) == request.content

\* The spawned worker follows its instruction and sets the status of its
\* task file to "completed" or "failed".
workerContent(content, outcome) ==
    [content EXCEPT !.status = StatusLine("\"", outcome)]

\* ------------------------------------------------------------------------
\* The state machine
\* ------------------------------------------------------------------------
RemoveAt(seq, i) == SubSeq(seq, 1, i - 1) \o SubSeq(seq, i + 1, Len(seq))

RequestedFiles(reqs) == {reqs[i].file : i \in 1..Len(reqs)}

\* The argument and the results of a processInbox call are gone once the
\* caller has used them.
Forget ==
    /\ returned' = FALSE
    /\ agents' = <<>>
    /\ tasks' = <<>>
    /\ requests' = <<>>
    /\ threw' = FALSE

Init ==
    /\ inboxExists \in BOOLEAN
    /\ files = [f \in FileIds |-> AbsentEntry]
    /\ now = 0
    /\ inflight = <<>>
    /\ lastWrite = [f \in FileIds |-> "none"]
    /\ preDispatch = [f \in FileIds |-> NoContent]
    /\ returned = FALSE
    /\ agents = <<>>
    /\ tasks = <<>>
    /\ requests = <<>>
    /\ threw = FALSE
    /\ registry = <<>>
    /\ sessionTasks = Resolved(<<>>)
    /\ publish = NoPublish
    /\ runs = <<>>
    /\ consecutiveFailures = 0
    /\ pending = 0
    /\ sinceReset = 0
    /\ event = "start"
    /\ taskFile = NoTaskFile
    /\ title = NoTitle
    /\ config = NoConfig /\ checkAt = "idle" /\ attempt = 0
    /\ openChecks = 0 /\ history = <<>> /\ checkResult = NoResult

\* Somebody creates tasks/inbox.
CreateInbox ==
    /\ ~returned
    /\ ~inboxExists
    /\ inboxExists' = TRUE
    /\ Forget
    /\ UNCHANGED <<files, now, inflight, lastWrite, preDispatch>>
    /\ UNCHANGED tickVars
    /\ UNCHANGED loopVars
    /\ UNCHANGED titleVars
    /\ UNCHANGED checkVars

\* The task creator drops a task file into the inbox.
CreateTask(f, content) ==
    /\ ~returned
    /\ inboxExists
    /\ files[f].kind = "absent"
    /\ files' = [files EXCEPT ![f] = TaskEntry(content, now)]
    /\ Forget
    /\ UNCHANGED <<inboxExists, now, inflight, lastWrite, preDispatch>>
    /\ UNCHANGED tickVars
    /\ UNCHANGED loopVars
    /\ UNCHANGED titleVars
    /\ UNCHANGED checkVars

\* A directory entry that is not an .md file appears.
CreateOther(f) ==
    /\ ~returned
    /\ inboxExists
    /\ files[f].kind = "absent"
    /\ files' = [files EXCEPT ![f] = OtherEntry]
    /\ Forget
    /\ UNCHANGED <<inboxExists, now, inflight, lastWrite, preDispatch>>
    /\ UNCHANGED tickVars
    /\ UNCHANGED loopVars
    /\ UNCHANGED titleVars
    /\ UNCHANGED checkVars

\* An .md entry appears that statSync / readFileSync cannot read.
CreateBroken(f) ==
    /\ ~returned
    /\ inboxExists
    /\ files[f].kind = "absent"
    /\ files' = [files EXCEPT ![f] = BrokenEntry]
    /\ Forget
    /\ UNCHANGED <<inboxExists, now, inflight, lastWrite, preDispatch>>
    /\ UNCHANGED tickVars
    /\ UNCHANGED loopVars
    /\ UNCHANGED titleVars
    /\ UNCHANGED checkVars

\* One call of processInbox(agents) at time t.
processInboxCall(agentList, t) ==
    LET result == processInbox(inboxExists, files, agentList, t)
    IN  /\ ~returned
        /\ files' = result.files
        /\ inflight' = inflight \o result.requests
        /\ lastWrite' = [f \in DOMAIN files |->
                            IF f \in RequestedFiles(result.requests)
                            THEN IF lastWrite[f] = "rollback"
                                 THEN "retry" ELSE "dispatch"
                            ELSE lastWrite[f]]
        /\ returned' = TRUE
        /\ agents' = agentList
        /\ tasks' = result.tasks
        /\ requests' = result.requests
        /\ threw' = result.threw
        /\ preDispatch' = [f \in DOMAIN files |->
                            IF f \in RequestedFiles(result.requests)
                            THEN files[f].content ELSE preDispatch[f]]
        /\ UNCHANGED <<inboxExists, now>>

\* One call of processInbox(agents) by the polling tick.
Tick(agentList) ==
    /\ processInboxCall(agentList, now)
    /\ UNCHANGED tickVars
    /\ UNCHANGED loopVars
    /\ UNCHANGED titleVars
    /\ UNCHANGED checkVars

\* updateStatus goes on synchronously with the returned list (merge, payload,
\* publish request); no callback or other process runs before it has.
Publish ==
    /\ returned
    /\ Forget
    /\ lastWrite' = [f \in DOMAIN lastWrite |->
                        IF lastWrite[f] = "retry" THEN "dispatch" ELSE lastWrite[f]]
    /\ UNCHANGED <<inboxExists, files, now, inflight, preDispatch>>
    /\ UNCHANGED tickVars
    /\ UNCHANGED loopVars
    /\ UNCHANGED titleVars
    /\ UNCHANGED checkVars

\* The exec callback of inflight[i] runs with err = null.
InvokeOk(i) ==
    /\ ~returned
    /\ i \in 1..Len(inflight)
    /\ inflight' = RemoveAt(inflight, i)
    /\ Forget
    /\ UNCHANGED <<inboxExists, files, now, lastWrite, preDispatch>>
    /\ UNCHANGED tickVars
    /\ UNCHANGED loopVars
    /\ UNCHANGED titleVars
    /\ UNCHANGED checkVars

\* The exec callback of inflight[i] runs with an error: rollback.
InvokeErr(i) ==
    /\ ~returned
    /\ i \in 1..Len(inflight)
    /\ files' = [files EXCEPT ![inflight[i].file] =
                    TaskEntry(rollbackContent(inflight[i]), now)]
    /\ inflight' = RemoveAt(inflight, i)
    /\ lastWrite' = [lastWrite EXCEPT ![inflight[i].file] = "rollback"]
    /\ Forget
    /\ UNCHANGED <<inboxExists, now, preDispatch>>
    /\ UNCHANGED tickVars
    /\ UNCHANGED loopVars
    /\ UNCHANGED titleVars
    /\ UNCHANGED checkVars

\* The worker spawned for task f writes its terminal status.  A file reads
\* dispatched only between the Router's dispatch write and the worker's.
WorkerWrite(f, outcome) ==
    /\ ~returned
    /\ files[f].kind = "task"
    /\ parseStatus(files[f].content) = "dispatched"
    /\ files' = [files EXCEPT ![f] = TaskEntry(workerContent(files[f].content, outcome), now)]
    /\ Forget
    /\ UNCHANGED <<inboxExists, now, inflight, lastWrite, preDispatch>>
    /\ UNCHANGED tickVars
    /\ UNCHANGED loopVars
    /\ UNCHANGED titleVars
    /\ UNCHANGED checkVars

Next ==
    \/ CreateInbox
    \/ \E f \in FileIds, c \in CreatedContents : CreateTask(f, c)
    \/ \E f \in FileIds : CreateOther(f)
    \/ \E f \in FileIds : CreateBroken(f)
    \/ \E a \in AgentLists : Tick(a)
    \/ Publish
    \/ \E i \in DOMAIN inflight : InvokeOk(i)
    \/ \E i \in DOMAIN inflight : InvokeErr(i)
    \/ \E f \in FileIds, o \in {"completed", "failed"} : WorkerWrite(f, o)

Spec == Init /\ [][Next]_vars

\* ------------------------------------------------------------------------
\* SpecScan: one call of processInbox on an inbox as the monitor may find it
\* when it starts, with files of different age.  The call is made at time
\* MaxTime; no file is younger than that.
\* ------------------------------------------------------------------------
Times == 0..MaxTime
ScanFileIds == 1..ScanFiles

ScanContents ==
    {[status |-> StatusLine("", "pending"), type |-> ""],
     [status |-> StatusLine("\"", "completed"), type |-> ""],
     [status |-> NoStatusLine, type |-> ""]}

ScanEntries ==
    {AbsentEntry, BrokenEntry} \cup {TaskEntry(c, m) : c \in ScanContents, m \in Times}

InitScan ==
    /\ inboxExists = TRUE
    /\ files \in [ScanFileIds -> ScanEntries]
    /\ now = MaxTime
    /\ inflight = <<>>
    /\ lastWrite = [f \in ScanFileIds |-> "none"]
    /\ preDispatch = [f \in ScanFileIds |-> NoContent]
    /\ returned = FALSE
    /\ agents = <<>>
    /\ tasks = <<>>
    /\ requests = <<>>
    /\ threw = FALSE
    /\ registry = <<>>
    /\ sessionTasks = Resolved(<<>>)
    /\ publish = NoPublish
    /\ runs = <<>>
    /\ consecutiveFailures = 0
    /\ pending = 0
    /\ sinceReset = 0
    /\ event = "start"
    /\ taskFile = NoTaskFile
    /\ title = NoTitle
    /\ config = NoConfig /\ checkAt = "idle" /\ attempt = 0
    /\ openChecks = 0 /\ history = <<>> /\ checkResult = NoResult

NextScan == \E a \in AgentLists : Tick(a)

SpecScan == InitScan /\ [][NextScan]_vars

\* ------------------------------------------------------------------------
\* SpecTick: one run of updateStatus from the registry read to the publish
\* request, on a registry and an inbox as the tick may find them.  The
\* registry is read at RegistryNow; getTasks and processInbox run after the
\* sleep that follows.
\* ------------------------------------------------------------------------
ActiveAt == RegistryNow - ActiveWindowMs + 1
IdleAt == RegistryNow - ActiveWindowMs
HiddenAt == RegistryNow + SleepMs - HideAfterMs - 1

WorkerSession(label) ==
    [key |-> "agent:main:subagent", sessionId |-> "subagent",
     totalTokens |-> 0, label |-> label]

PrimarySession(updatedAt) ==
    [key |-> MainKey, sessionId |-> MainSessionId,
     totalTokens |-> 1, updatedAt |-> updatedAt]

\* The main session after it was started anew: the key of the main session,
\* another session id.
RestartedPrimarySession ==
    [key |-> MainKey, sessionId |-> "main-restarted",
     totalTokens |-> 1, updatedAt |-> ActiveAt]

\* The session that has the id parseSessionsFile knows as the main one, kept
\* in the registry under another key.
FormerPrimarySession ==
    [key |-> "agent:main:former", sessionId |-> MainSessionId,
     totalTokens |-> 1, updatedAt |-> IdleAt]

Sessions ==
    {WorkerSession(l) : l \in {"tech_team", "handyman"}}
    \cup {WorkerSession(l) @@ [updatedAt |-> u] :
            l \in {"tech_team", "handyman"}, u \in {ActiveAt, IdleAt}}
    \cup {PrimarySession(u) : u \in {ActiveAt, HiddenAt}}
    \cup {RestartedPrimarySession, FormerPrimarySession}

\* sessions.json is an object keyed by session key: the key of the main
\* session occurs at most once.
Registries ==
    {reg \in UNION {[1..n -> Sessions] : n \in 0..MaxSessions} :
        Cardinality({k \in DOMAIN reg : reg[k].key = MainKey}) <= 1}

TickEntries ==
    {AbsentEntry} \cup {TaskEntry([status |-> StatusLine("", "pending"), type |-> k], 0) :
                            k \in CreatedTypes}

InitTick ==
    /\ inboxExists = TRUE
    /\ files \in [FileIds -> TickEntries]
    /\ now = RegistryNow
    /\ inflight = <<>>
    /\ lastWrite = [f \in FileIds |-> "none"]
    /\ preDispatch = [f \in FileIds |-> NoContent]
    /\ returned = FALSE
    /\ agents = <<>> /\ tasks = <<>> /\ requests = <<>> /\ threw = FALSE
    /\ registry \in Registries
    /\ sessionTasks = Resolved(<<>>)
    /\ publish = NoPublish
    /\ runs = <<>>
    /\ consecutiveFailures = 0
    /\ pending = 0
    /\ sinceReset = 0
    /\ event = "start"
    /\ taskFile = NoTaskFile
    /\ title = NoTitle
    /\ config = NoConfig /\ checkAt = "idle" /\ attempt = 0
    /\ openChecks = 0 /\ history = <<>> /\ checkResult = NoResult

\* updateStatus from parseSessionsFile() on: the registry read, the sleep,
\* getTasks, processInbox(agents), the merge and the publish request.
updateStatusFromRegistry ==
    /\ processInboxCall(parseSessionsFile(registry, now), now + SleepMs)
    /\ sessionTasks' = getTasks(registry, now + SleepMs)
    /\ publish' = mergeAndPublish(tasks', sessionTasks')
    /\ UNCHANGED registry

UpdateStatus ==
    /\ updateStatusFromRegistry
    /\ UNCHANGED loopVars
    /\ UNCHANGED titleVars
    /\ UNCHANGED checkVars

NextTick == UpdateStatus

SpecTick == InitTick /\ [][NextTick]_vars

\* ------------------------------------------------------------------------
\* SpecLoop: the scheduling loop.  updateStatus() is called once at start
\* and then by setInterval(updateStatus, INTERVAL_MS); the timer does not
\* wait for a run to end, and a run gives up control at each of its awaits.
\* The registry is empty and there is no inbox.
\* ------------------------------------------------------------------------
\* The await a run of updateStatus is suspended at.
Awaits == <<"models", "sleep1", "sleep2", "getTasks", "healthCheck">>

\* The await that follows the one a run is suspended at.
afterAwait(at) ==
    CASE at = "models" -> "sleep1"
      [] at = "sleep1" -> "sleep2"
      [] at = "sleep2" -> "getTasks"
      [] OTHER -> "healthCheck"

\* A health check that alerts only above the threshold.
alertDueAbove(failures) == failures > MAX_FAILURES_BEFORE_ALERT

\* if (consecutiveFailures >= MAX_FAILURES_BEFORE_ALERT)
alertDue(failures) == failures >= MAX_FAILURES_BEFORE_ALERT

InitLoop ==
    /\ inboxExists = FALSE
    /\ files = [f \in FileIds |-> AbsentEntry]
    /\ now = 0
    /\ inflight = <<>>
    /\ lastWrite = [f \in FileIds |-> "none"]
    /\ preDispatch = [f \in FileIds |-> NoContent]
    /\ returned = FALSE
    /\ agents = <<>> /\ tasks = <<>> /\ requests = <<>> /\ threw = FALSE
    /\ registry = <<>>
    /\ sessionTasks = Resolved(<<>>)
    /\ publish = NoPublish
    /\ runs = <<"models">>
    /\ consecutiveFailures = 0
    /\ pending = 0
    /\ sinceReset = 0
    /\ event = "start"
    /\ taskFile = NoTaskFile
    /\ title = NoTitle
    /\ config = NoConfig /\ checkAt = "idle" /\ attempt = 0
    /\ openChecks = 0 /\ history = <<>> /\ checkResult = NoResult

\* The interval timer calls updateStatus.
TimerFires ==
    /\ ~returned
    /\ Len(runs) < MaxRuns
    /\ runs' = Append(runs, "models")
    /\ event' = "start"
    /\ UNCHANGED <<consecutiveFailures, pending, sinceReset>>
    /\ UNCHANGED <<inboxExists, files, now, inflight, lastWrite, preDispatch,
                   returned, agents, tasks, requests, threw>>
    /\ UNCHANGED tickVars
    /\ UNCHANGED titleVars
    /\ UNCHANGED checkVars

\* Run i comes back from `await runCommand(...)` or from one of the two
\* `await sleep(1000)` and goes on to its next await.
Resume(i) ==
    /\ ~returned
    /\ runs[i] \in {"models", "sleep1", "sleep2"}
    /\ runs' = [runs EXCEPT ![i] = afterAwait(@)]
    /\ event' = "resume"
    /\ UNCHANGED <<consecutiveFailures, pending, sinceReset>>
    /\ UNCHANGED <<inboxExists, files, now, inflight, lastWrite, preDispatch,
                   returned, agents, tasks, requests, threw>>
    /\ UNCHANGED tickVars
    /\ UNCHANGED titleVars
    /\ UNCHANGED checkVars

\* Run i comes back from `await getTasks()`: processInbox, the merge and the
\* publish request.
RouteAndPublish(i) ==
    /\ runs[i] = "getTasks"
    /\ pending < MaxPending
    /\ updateStatusFromRegistry
    /\ runs' = [runs EXCEPT ![i] = afterAwait(@)]
    /\ pending' = IF publish'.issued THEN pending + 1 ELSE pending
    /\ event' = "publish"
    /\ UNCHANGED <<consecutiveFailures, sinceReset>>
    /\ UNCHANGED titleVars
    /\ UNCHANGED checkVars

\* Run i goes on, in the same turn, to the health check and ends; a run
\* whose merge threw has ended without one.
HealthCheck(i) ==
    /\ returned
    /\ runs[i] = "healthCheck"
    /\ runs' = RemoveAt(runs, i)
    /\ IF publish.issued /\ alertDue(consecutiveFailures)
       THEN /\ consecutiveFailures' = 0
            /\ sinceReset' = 0
            /\ event' = "alert"
       ELSE /\ UNCHANGED <<consecutiveFailures, sinceReset>>
            /\ event' = IF publish.issued THEN "check" ELSE "rejected"
    /\ Forget
    /\ UNCHANGED pending
    /\ UNCHANGED <<inboxExists, files, now, inflight, lastWrite, preDispatch>>
    /\ UNCHANGED tickVars
    /\ UNCHANGED titleVars
    /\ UNCHANGED checkVars

\* The response of a publish request ends with a 2xx status.
PublishOk ==
    /\ ~returned
    /\ pending > 0
    /\ pending' = pending - 1
    /\ consecutiveFailures' = 0
    /\ sinceReset' = 0
    /\ event' = "ok"
    /\ UNCHANGED runs
    /\ UNCHANGED <<inboxExists, files, now, inflight, lastWrite, preDispatch,
                   returned, agents, tasks, requests, threw>>
    /\ UNCHANGED tickVars
    /\ UNCHANGED titleVars
    /\ UNCHANGED checkVars

\* The response ends with another status, or the request emits 'error'.
PublishFail ==
    /\ ~returned
    /\ pending > 0
    /\ pending' = pending - 1
    /\ consecutiveFailures' = consecutiveFailures + 1
    /\ sinceReset' = sinceReset + 1
    /\ event' = "fail"
    /\ UNCHANGED runs
    /\ UNCHANGED <<inboxExists, files, now, inflight, lastWrite, preDispatch,
                   returned, agents, tasks, requests, threw>>
    /\ UNCHANGED tickVars
    /\ UNCHANGED titleVars
    /\ UNCHANGED checkVars

NextLoop ==
    \/ TimerFires
    \/ \E i \in DOMAIN runs : Resume(i)
    \/ \E i \in DOMAIN runs : RouteAndPublish(i)
    \/ \E i \in DOMAIN runs : HealthCheck(i)
    \/ PublishOk
    \/ PublishFail

SpecLoop == InitLoop /\ [][NextLoop]_vars

\* ------------------------------------------------------------------------
\* SpecTitle: the title processInbox derives for one task file, over file
\* names and file texts.
\* ------------------------------------------------------------------------
Chars == {"#", " ", "a"}

RECURSIVE repeat(_, _)
repeat(c, n) == IF n = 0 THEN <<>> ELSE <<c>> \o repeat(c, n - 1)

ShortLines == UNION {[1..n -> Chars] : n \in 0..MaxLineLen}

\* Lines around the length the title is cut at.
LongLines ==
    {repeat("a", n) : n \in {TitleMaxLen, TitleMaxLen + 1}}
    \cup {<<" ">> \o repeat("a", TitleMaxLen + 1),
          <<"#", " ">> \o repeat("a", TitleMaxLen + 1)}

FirstLines == ShortLines \cup LongLines

\* The lines after the first: none, a blank one, a heading, plain text.
RestOfFile == {<<>>, << <<>> >>, << <<"#", " ", "a">> >>, << <<"a">> >>}

FileNames == {<<"t", ".md">>, <<"t", ".md", "x", ".md">>}

InitTitle ==
    /\ inboxExists = TRUE
    /\ files = [f \in FileIds |-> AbsentEntry]
    /\ now = 0
    /\ inflight = <<>>
    /\ lastWrite = [f \in FileIds |-> "none"]
    /\ preDispatch = [f \in FileIds |-> NoContent]
    /\ returned = FALSE
    /\ agents = <<>> /\ tasks = <<>> /\ requests = <<>> /\ threw = FALSE
    /\ registry = <<>>
    /\ sessionTasks = Resolved(<<>>)
    /\ publish = NoPublish
    /\ runs = <<>>
    /\ consecutiveFailures = 0
    /\ pending = 0
    /\ sinceReset = 0
    /\ event = "start"
    /\ taskFile \in [file : FileNames,
                     content : {<<l>> \o rest : l \in FirstLines, rest \in RestOfFile}]
    /\ title = NoTitle
    /\ config = NoConfig /\ checkAt = "idle" /\ attempt = 0
    /\ openChecks = 0 /\ history = <<>> /\ checkResult = NoResult

\* The title lines of one iteration of the scan.
ReadTitle ==
    /\ ~title.derived
    /\ title' = [derived |-> TRUE, text |-> deriveTitle(taskFile.file, taskFile.content)]
    /\ UNCHANGED taskFile
    /\ UNCHANGED <<inboxExists, files, now, inflight, lastWrite, preDispatch,
                   returned, agents, tasks, requests, threw>>
    /\ UNCHANGED tickVars
    /\ UNCHANGED loopVars
    /\ UNCHANGED checkVars

NextTitle == ReadTitle

SpecTitle == InitTitle /\ [][NextTitle]_vars

\* ------------------------------------------------------------------------
\* SpecFailing: the scheduling loop while no publish request succeeds.  The
\* registry is empty or holds the main session.  The timer keeps firing,
\* every await of a run comes back, and the response or the error of every
\* publish request is delivered.
\* ------------------------------------------------------------------------
InitFailing ==
    /\ inboxExists = FALSE
    /\ files = [f \in FileIds |-> AbsentEntry]
    /\ now = RegistryNow
    /\ inflight = <<>>
    /\ lastWrite = [f \in FileIds |-> "none"]
    /\ preDispatch = [f \in FileIds |-> NoContent]
    /\ returned = FALSE
    /\ agents = <<>> /\ tasks = <<>> /\ requests = <<>> /\ threw = FALSE
    /\ registry \in {<<>>, <<PrimarySession(ActiveAt)>>}
    /\ sessionTasks = Resolved(<<>>)
    /\ publish = NoPublish
    /\ runs = <<"models">>
    /\ consecutiveFailures = 0
    /\ pending = 0
    /\ sinceReset = 0
    /\ event = "start"
    /\ taskFile = NoTaskFile
    /\ title = NoTitle
    /\ config = NoConfig /\ checkAt = "idle" /\ attempt = 0
    /\ openChecks = 0 /\ history = <<>> /\ checkResult = NoResult

NextFailing ==
    \/ TimerFires
    \/ \E i \in DOMAIN runs : Resume(i)
    \/ \E i \in DOMAIN runs : RouteAndPublish(i)
    \/ \E i \in DOMAIN runs : HealthCheck(i)
    \/ PublishFail

SpecFailing ==
    /\ InitFailing
    /\ [][NextFailing]_vars
    /\ WF_vars(TimerFires)
    /\ WF_vars(\E i \in DOMAIN runs : Resume(i))
    /\ WF_vars(\E i \in DOMAIN runs : RouteAndPublish(i))
    /\ WF_vars(\E i \in DOMAIN runs : HealthCheck(i))
    /\ WF_vars(PublishFail)

\* ------------------------------------------------------------------------
\* SpecCheck: one run of runHealthCheck, the health check script.
\* ------------------------------------------------------------------------
\* What one checkHealth request can come to: a response with status 200 or
\* with another status, an 'error' event, a 'timeout' event.
CheckOutcomes == {"200", "500", "error", "timeout"}

\* What the alert request can come to: a response with status 200 or with
\* another status, an 'error' event.
AlertOutcomes == {"200", "500", "error"}

\* success: res.statusCode === 200; false on 'error' and on 'timeout'
success(outcome) == outcome = "200"

\* A loop that waits after every failed attempt.
sleepAfterEveryAttempt(n) == n <= retries

\* if (attempt < CONFIG.retries)
sleepBetweenAttempts(n) == n < retries

\* A guard that gives up only when both settings are missing.
telegramConfiguredEither(cfg) == cfg.telegramBotToken \/ cfg.telegramChatId

\* if (!CONFIG.telegramBotToken || !CONFIG.telegramChatId) return
telegramConfigured(cfg) == cfg.telegramBotToken /\ cfg.telegramChatId

\* return { healthy, attempts, ... }
Result(healthy, attempts) ==
    [reported |-> TRUE, healthy |-> healthy, attempts |-> attempts]

\* The environment of the run: which of the two Telegram settings are set,
\* whether http/https accept CONFIG.dashboardUrl (client.get throws on a
\* URL of another protocol), and whether the Telegram server ever answers.
Configs ==
    [telegramBotToken : BOOLEAN, telegramChatId : BOOLEAN,
     urlSupported : BOOLEAN, telegramAnswers : BOOLEAN]

InitCheck ==
    /\ inboxExists = FALSE
    /\ files = [f \in FileIds |-> AbsentEntry]
    /\ now = 0
    /\ inflight = <<>>
    /\ lastWrite = [f \in FileIds |-> "none"]
    /\ preDispatch = [f \in FileIds |-> NoContent]
    /\ returned = FALSE
    /\ agents = <<>> /\ tasks = <<>> /\ requests = <<>> /\ threw = FALSE
    /\ registry = <<>>
    /\ sessionTasks = Resolved(<<>>)
    /\ publish = NoPublish
    /\ runs = <<>>
    /\ consecutiveFailures = 0
    /\ pending = 0
    /\ sinceReset = 0
    /\ event = "start"
    /\ taskFile = NoTaskFile
    /\ title = NoTitle
    /\ config \in Configs
    /\ checkAt = "start"
    /\ attempt = 0
    /\ openChecks = 0
    /\ history = <<>>
    /\ checkResult = NoResult

\* checkHealth(CONFIG.dashboardUrl, n), called with h the steps so far and
\* open the requests not yet answered: client.get either throws, which
\* rejects the promise and with it the run, or sends the request.
callCheckHealth(h, open, n) ==
    /\ attempt' = n
    /\ UNCHANGED checkResult
    /\ IF config.urlSupported
       THEN /\ checkAt' = "checkHealth"
            /\ openChecks' = open + 1
            /\ history' = Append(h, "attempt")
       ELSE /\ checkAt' = "rejected"
            /\ openChecks' = open
            /\ history' = Append(h, "throw")

\* sendTelegramAlert(alertMessage): without the two settings it returns at
\* once and the run returns with it; with them it sends the request.
callSendTelegramAlert(h, open) ==
    /\ openChecks' = open
    /\ UNCHANGED attempt
    /\ IF telegramConfigured(config)
       THEN /\ checkAt' = "sendTelegramAlert"
            /\ history' = Append(h, "alert")
            /\ UNCHANGED checkResult
       ELSE /\ checkAt' = "returned"
            /\ history' = h
            /\ checkResult' = Result(FALSE, retries)

\* attempt++; attempt <= CONFIG.retries: the next iteration, or the end of
\* the loop and the alert.
nextIteration(h, open) ==
    IF attempt + 1 <= retries
    THEN callCheckHealth(h, open, attempt + 1)
    ELSE callSendTelegramAlert(h, open)

\* runHealthCheck() is called: the loop starts with attempt 1.
StartCheck ==
    /\ checkAt = "start"
    /\ callCheckHealth(history, openChecks, 1)
    /\ UNCHANGED config
    /\ UNCHANGED monitorVars

\* The promise of checkHealth resolves and the loop body goes on: to the
\* return, to the sleep, or to the next iteration.
CheckAnswered(outcome) ==
    /\ checkAt = "checkHealth"
    /\ IF success(outcome)
       THEN /\ checkAt' = "returned"
            /\ openChecks' = openChecks - 1
            /\ history' = Append(history, outcome)
            /\ checkResult' = Result(TRUE, attempt)
            /\ UNCHANGED attempt
       ELSE IF sleepBetweenAttempts(attempt)
            THEN /\ checkAt' = "sleep"
                 /\ openChecks' = openChecks - 1
                 /\ history' = Append(Append(history, outcome), "sleep")
                 /\ UNCHANGED <<attempt, checkResult>>
            ELSE nextIteration(Append(history, outcome), openChecks - 1)
    /\ UNCHANGED config
    /\ UNCHANGED monitorVars

\* The retry delay is over: the loop goes on.
SleepOver ==
    /\ checkAt = "sleep"
    /\ nextIteration(history, openChecks)
    /\ UNCHANGED config
    /\ UNCHANGED monitorVars

\* The alert request gets a response or an 'error': sendTelegramAlert
\* resolves (to true for a response with status 200) and the run returns.
AlertAnswered(outcome) ==
    /\ checkAt = "sendTelegramAlert"
    /\ config.telegramAnswers
    /\ checkAt' = "returned"
    /\ checkResult' = Result(FALSE, retries)
    /\ history' = Append(history, IF outcome = "200" THEN "sent" ELSE "unsent")
    /\ UNCHANGED <<config, attempt, openChecks>>
    /\ UNCHANGED monitorVars

NextCheck ==
    \/ StartCheck
    \/ \E o \in CheckOutcomes : CheckAnswered(o)
    \/ SleepOver
    \/ \E o \in AlertOutcomes : AlertAnswered(o)

SpecCheck == InitCheck /\ [][NextCheck]_vars

\* FairCheck: the run when every request that is answered at all is answered
\* in the end and every timer runs out.
FairCheck ==
    /\ SpecCheck
    /\ WF_vars(StartCheck)
    /\ WF_vars(\E o \in CheckOutcomes : CheckAnswered(o))
    /\ WF_vars(SleepOver)
    /\ WF_vars(\E o \in AlertOutcomes : AlertAnswered(o))

\* ------------------------------------------------------------------------
\* Vocabulary of the properties
\* ------------------------------------------------------------------------
\* This step is a call of processInbox: files is the inbox before the call,
\* files' after it; agents', tasks', requests', threw' are its argument and
\* its results.
TickStep == ~returned /\ returned'

IsTask(f) == files[f].kind = "task"
StatusOnDisk(f) == parseStatus(files[f].content)
LabelOf(f) == targetLabel(parseType(files[f].content))
IsPendingTask(f) == IsTask(f) /\ StatusOnDisk(f) = "pending"

RequestCount(f) == Cardinality({i \in DOMAIN requests : requests[i].file = f})
Listed(f) == \E i \in DOMAIN tasks : tasks[i].id = f
ListedAs(f, status) ==
    \E i \in DOMAIN tasks : tasks[i].id = f /\ tasks[i].status = status
InFlight(f) == \E i \in DOMAIN inflight : inflight[i].file = f

\* File f went through the dispatch branch of this call.
DispatchedNow(f) ==
    /\ RequestCount(f)' = 1
    /\ StatusOnDisk(f)' = "dispatched"
    /\ ListedAs(f, "dispatched")'

\* File f was left alone by this call and is shown as it is on disk.
LeftAs(f, status) ==
    /\ files'[f] = files[f]
    /\ RequestCount(f)' = 0
    /\ ListedAs(f, status)'

\* ------------------------------------------------------------------------
\* C1: in one tick, every pending task file whose target label has no
\* active worker in the supplied list gets exactly one invocation request,
\* reads dispatched on disk when the scan has finished, and is returned
\* with status dispatched.
\* ------------------------------------------------------------------------
C1_IdlePendingDispatched ==
    [][TickStep =>
        \A f \in FileIds :
            (IsPendingTask(f) /\ ~isBusy(agents', LabelOf(f))) => DispatchedNow(f)]_vars

\* C1 holds of every scan that no file makes throw.
C1_UnlessScanThrows ==
    [][(TickStep /\ ~threw') =>
        \A f \in FileIds :
            (IsPendingTask(f) /\ ~isBusy(agents', LabelOf(f))) => DispatchedNow(f)]_vars

\* ------------------------------------------------------------------------
\* C2: in one tick, every pending task whose target label has an active
\* worker in the supplied list is not written, gets no invocation request
\* and is returned with status pending.
\* ------------------------------------------------------------------------
C2_BusyPendingLeftPending ==
    [][TickStep =>
        \A f \in FileIds :
            (IsPendingTask(f) /\ isBusy(agents', LabelOf(f))) => LeftAs(f, "pending")]_vars

\* C2 holds of every scan that no file makes throw; the file is left
\* unwritten and unrequested in every scan.
C2_UnlessScanThrows ==
    [][TickStep =>
        \A f \in FileIds :
            (IsPendingTask(f) /\ isBusy(agents', LabelOf(f))) =>
                /\ files'[f] = files[f]
                /\ RequestCount(f)' = 0
                /\ ~threw' => ListedAs(f, "pending")']_vars

\* ------------------------------------------------------------------------
\* C3: when the invocation of a dispatched task reports failure, the
\* callback writes the file back to exactly the content the scan read
\* before its dispatch write, so the file reads pending again.
\* ------------------------------------------------------------------------
C3_RollbackRestoresContent ==
    \A f \in FileIds :
        lastWrite[f] = "rollback" =>
            /\ files[f].content = preDispatch[f]
            /\ StatusOnDisk(f) = "pending"

\* A failed invocation has rolled a task file back.
C3_Witness ==
    \E f \in FileIds :
        /\ lastWrite[f] = "rollback"
        /\ IsPendingTask(f)
        /\ newContent(files[f].content) # files[f].content

\* ------------------------------------------------------------------------
\* C4: a task whose file an earlier tick wrote to dispatched and that has
\* not been rolled back since is never dispatched again, also while its
\* invocation is still in flight: a tick requests an invocation only for a
\* file whose last Router write is not a dispatch, and at most one per file.
\* ------------------------------------------------------------------------
C4_NoRedispatchWithoutRollback ==
    [][TickStep =>
        \A f \in FileIds :
            /\ RequestCount(f)' <= 1
            /\ RequestCount(f)' = 1 => lastWrite[f] \notin {"dispatch", "retry"}]_vars

\* A tick has scanned a task it dispatched earlier, whose invocation is
\* still in flight, and has left it alone.
C4_Witness ==
    /\ returned
    /\ \E f \in FileIds :
        /\ lastWrite[f] \in {"dispatch", "retry"}
        /\ InFlight(f)
        /\ RequestCount(f) = 0
        /\ ListedAs(f, "dispatched")

\* ------------------------------------------------------------------------
\* C5: at every moment, for each target label, at most one task routed to
\* that label has been dispatched and still awaits its invocation outcome.
\* ------------------------------------------------------------------------
C5_OneInFlightPerLabel ==
    \A label \in {"tech_team", "handyman"} :
        Cardinality({i \in DOMAIN inflight : inflight[i].label = label}) <= 1

\* ------------------------------------------------------------------------
\* C6: within one processInbox call the busy decision of every task comes
\* from the worker list passed in, whatever was dispatched earlier in the
\* scan: a pending task is dispatched in this tick exactly when its target
\* label has no active worker in that list.
\* ------------------------------------------------------------------------
C6_BusyFromSnapshot ==
    [][TickStep =>
        \A f \in FileIds :
            IsPendingTask(f) =>
                IF isBusy(agents', LabelOf(f))
                THEN RequestCount(f)' = 0
                ELSE DispatchedNow(f)]_vars

\* C6 holds of every scan that no file makes throw.
C6_UnlessScanThrows ==
    [][(TickStep /\ ~threw') =>
        \A f \in FileIds :
            IsPendingTask(f) =>
                IF isBusy(agents', LabelOf(f))
                THEN RequestCount(f)' = 0
                ELSE DispatchedNow(f)]_vars

\* Two tasks of one label were dispatched by the same call.
C6_WitnessTwoInOneTick ==
    /\ returned
    /\ \E f, g \in FileIds :
        /\ f # g
        /\ RequestCount(f) = 1 /\ RequestCount(g) = 1
        /\ \E i, j \in DOMAIN requests :
            /\ requests[i].file = f /\ requests[j].file = g
            /\ requests[i].label = requests[j].label

\* ------------------------------------------------------------------------
\* C7: once the worker has written completed or failed into a task file,
\* no Router action (a later scan, the invocation's completion callback)
\* modifies that file.
\* ------------------------------------------------------------------------
C7_TerminalFilesUntouched ==
    [][\A f \in FileIds :
        (IsTask(f) /\ StatusOnDisk(f) \in {"completed", "failed"}) =>
            files'[f] = files[f]]_vars

\* No scan modifies a file in a terminal state.
C7_ScansLeaveTerminalFiles ==
    [][TickStep =>
        \A f \in FileIds :
            (IsTask(f) /\ StatusOnDisk(f) \in {"completed", "failed"}) =>
                files'[f] = files[f]]_vars

\* What a scan does to a readable task file it processes on its own.
ProcessedNormally(f) ==
    IF IsPendingTask(f) /\ ~isBusy(agents', LabelOf(f))
    THEN DispatchedNow(f)
    ELSE LeftAs(f, StatusOnDisk(f))

\* ------------------------------------------------------------------------
\* C8: a failure while reading one task file does not escape the per-file
\* step, and every other .md file of the inbox is classified, dispatched if
\* eligible, and listed in the same tick.
\* ------------------------------------------------------------------------
C8_PerFileIndependence ==
    [][TickStep =>
        /\ ~threw'
        /\ \A f \in FileIds : IsTask(f) => ProcessedNormally(f)]_vars

\* What the code does instead: the files that come before the first
\* unreadable entry are processed, the files after it are not touched and
\* not listed.
C8_ScanStopsAtUnreadable ==
    [][TickStep =>
        \A f \in FileIds :
            IsTask(f) =>
                IF \E g \in 1..(f - 1) : files[g].kind = "broken"
                THEN files'[f] = files[f] /\ RequestCount(f)' = 0 /\ ~Listed(f)'
                ELSE ProcessedNormally(f)]_vars

\* ------------------------------------------------------------------------
\* C9: a task file with no recognizable status metadata is listed with
\* status unknown, is not written and not dispatched, and the other files
\* of the inbox are processed normally in the same tick; a pending file
\* with no recognizable type is routed as kind general (label handyman).
\* ------------------------------------------------------------------------
C9_UnknownStatusAndDefaultKind ==
    [][TickStep =>
        \A f \in FileIds :
            /\ (IsTask(f) /\ ~files[f].content.status.key) =>
                    /\ LeftAs(f, "unknown")
                    /\ \A g \in FileIds \ {f} : IsTask(g) => ProcessedNormally(g)
            /\ (IsPendingTask(f) /\ files[f].content.type = "") =>
                    /\ DispatchedNow(f) <=> ~isBusy(agents', "handyman")
                    /\ \A i \in DOMAIN requests' :
                            requests'[i].file = f => requests'[i].label = "handyman"]_vars

\* C9 holds of every scan that no file makes throw; the file without status
\* is left unwritten and unrequested in every scan.
C9_UnlessScanThrows ==
    [][TickStep =>
        \A f \in FileIds :
            /\ (IsTask(f) /\ ~files[f].content.status.key) =>
                    /\ files'[f] = files[f]
                    /\ RequestCount(f)' = 0
                    /\ ~threw' =>
                        /\ ListedAs(f, "unknown")'
                        /\ \A g \in FileIds \ {f} : IsTask(g) => ProcessedNormally(g)
            /\ (IsPendingTask(f) /\ files[f].content.type = "" /\ ~threw') =>
                    /\ DispatchedNow(f) <=> ~isBusy(agents', "handyman")
                    /\ \A i \in DOMAIN requests' :
                            requests'[i].file = f => requests'[i].label = "handyman"]_vars

\* ------------------------------------------------------------------------
\* C10: when the inbox directory does not exist, processInbox returns an
\* empty list, raises no exception (not even one its own catch block
\* absorbs), writes no file and issues no invocation request.
\* ------------------------------------------------------------------------
C10_MissingInbox ==
    [][(TickStep /\ ~inboxExists) =>
        /\ tasks' = <<>>
        /\ ~threw'
        /\ files' = files
        /\ requests' = <<>>
        /\ inflight' = inflight]_vars

\* processInbox has returned from a call made while the inbox was missing.
C10_Witness == returned /\ ~inboxExists /\ tasks = <<>>

\* ------------------------------------------------------------------------
\* Vocabulary of the returned list
\* ------------------------------------------------------------------------
\* Entry i of the returned list was dispatched by the call that returned it.
DispatchedEntry(i) == tasks[i].id \in RequestedFiles(requests)

\* The returned list is in non-decreasing order of updatedAt.
AscendingByUpdatedAt ==
    \A i, j \in DOMAIN tasks : i < j => tasks[i].updatedAt <= tasks[j].updatedAt

\* Every entry reports the dispatch time if it was dispatched by this call
\* and its file's modification time otherwise.
ReportsDispatchTimeOrMtime ==
    \A i \in DOMAIN tasks :
        tasks[i].updatedAt =
            IF DispatchedEntry(i) THEN now ELSE files[tasks[i].id].mtime

\* ------------------------------------------------------------------------
\* C11: every list processInbox returns is in non-decreasing order of the
\* updatedAt its entries report (dispatch time for an entry dispatched in
\* this tick, file modification time for every other), also the list
\* returned when the scan ends early.
\* ------------------------------------------------------------------------
C11_ReturnedListAscending ==
    returned => (AscendingByUpdatedAt /\ ReportsDispatchTimeOrMtime)

\* C11 holds of every scan that no file makes throw.
C11_UnlessScanThrows ==
    (returned /\ ~threw) => (AscendingByUpdatedAt /\ ReportsDispatchTimeOrMtime)

\* ------------------------------------------------------------------------
\* C12, as claimed: in the returned list every entry dispatched in this
\* tick precedes every entry not dispatched in this tick, and the remaining
\* entries follow in ascending order of file modification time.
\* ------------------------------------------------------------------------
C12_DispatchedFirst ==
    returned =>
        \A i, j \in DOMAIN tasks :
            /\ (DispatchedEntry(i) /\ ~DispatchedEntry(j)) => i < j
            /\ (~DispatchedEntry(i) /\ ~DispatchedEntry(j) /\ i < j) =>
                    files[tasks[i].id].mtime <= files[tasks[j].id].mtime

\* C12, amended: when the scan ran to its end the list is in ascending
\* order of updatedAt, entries of equal updatedAt in directory order; so an
\* entry dispatched in this tick comes after every entry not dispatched
\* whose file is older than the dispatch, and the entries not dispatched
\* are in ascending order of modification time.  When a file made the scan
\* throw, the list is in directory order.
C12_DispatchedLast ==
    returned =>
        \A i, j \in DOMAIN tasks :
            IF threw
            THEN i < j => tasks[i].id < tasks[j].id
            ELSE /\ i < j =>
                        \/ tasks[i].updatedAt < tasks[j].updatedAt
                        \/ /\ tasks[i].updatedAt = tasks[j].updatedAt
                           /\ tasks[i].id < tasks[j].id
                 /\ ( /\ DispatchedEntry(i)
                      /\ ~DispatchedEntry(j)
                      /\ files[tasks[j].id].mtime < now ) => j < i
                 /\ (~DispatchedEntry(i) /\ ~DispatchedEntry(j) /\ i < j) =>
                        files[tasks[i].id].mtime <= files[tasks[j].id].mtime

\* A completed scan has returned a list in which an entry it dispatched
\* stands behind an older entry it did not dispatch, though it comes first
\* in the directory.
C12_Witness ==
    /\ returned /\ ~threw
    /\ \E i, j \in DOMAIN tasks :
        /\ j < i
        /\ tasks[i].id < tasks[j].id
        /\ DispatchedEntry(i)
        /\ ~DispatchedEntry(j)

\* ------------------------------------------------------------------------
\* C19: during a scan a task file whose status is not pending (dispatched,
\* completed, failed, unknown) is not written, gets no invocation request,
\* and is listed with the status read from the file and updatedAt equal to
\* the file's modification time.
\* ------------------------------------------------------------------------
ListedWith(f, status, updatedAt) ==
    \E i \in DOMAIN tasks :
        /\ tasks[i].id = f
        /\ tasks[i].status = status
        /\ tasks[i].updatedAt = updatedAt

C19_NonPendingListedAsRead ==
    [][TickStep =>
        \A f \in DOMAIN files :
            (IsTask(f) /\ StatusOnDisk(f) # "pending") =>
                /\ files'[f] = files[f]
                /\ RequestCount(f)' = 0
                /\ ListedWith(f, StatusOnDisk(f), files[f].mtime)']_vars

\* C19 holds of every scan that no file makes throw; the file is left
\* unwritten and unrequested in every scan.
C19_UnlessScanThrows ==
    [][TickStep =>
        \A f \in DOMAIN files :
            (IsTask(f) /\ StatusOnDisk(f) # "pending") =>
                /\ files'[f] = files[f]
                /\ RequestCount(f)' = 0
                /\ ~threw' => ListedWith(f, StatusOnDisk(f), files[f].mtime)']_vars

\* ------------------------------------------------------------------------
\* C16: after an invocation failure has rolled a task file back to pending,
\* the first later tick that scans the file while its target label is not
\* busy issues a new invocation request for it; between ticks the Router
\* issues no invocation request.
\* ------------------------------------------------------------------------
\* The scan reaches entry f: no entry before it makes the scan throw.
Scanned(f) ==
    /\ inboxExists
    /\ \A g \in DOMAIN files : g < f => files[g].kind # "broken"

C16_FailedDispatchRetried ==
    [][/\ TickStep =>
            \A f \in FileIds :
                ( /\ lastWrite[f] = "rollback"
                  /\ Scanned(f)
                  /\ ~isBusy(agents', targetLabel(parseType(preDispatch[f]))) ) =>
                    /\ RequestCount(f)' = 1
                    /\ InFlight(f)'
       /\ ~TickStep =>
            /\ requests' = <<>>
            /\ \A f \in FileIds : InFlight(f)' => InFlight(f)]_vars

\* A tick has dispatched again a task whose earlier invocation had failed.
C16_Witness ==
    /\ returned
    /\ \E f \in FileIds :
        /\ lastWrite[f] = "retry"
        /\ RequestCount(f) = 1
        /\ StatusOnDisk(f) = "dispatched"

\* ------------------------------------------------------------------------
\* C18: for every dispatch the write of the dispatched status to the task
\* file comes before the invocation request; no invocation request is ever
\* issued for a task whose file still reads pending.
\* ------------------------------------------------------------------------
C18_WriteBeforeInvocation ==
    /\ \A i \in DOMAIN requests : requests[i].onDisk = "dispatched"
    /\ \A i \in DOMAIN inflight : inflight[i].onDisk = "dispatched"

\* A tick has issued an invocation request.
C18_Witness ==
    /\ returned
    /\ \E i \in DOMAIN requests :
        /\ requests[i].onDisk = "dispatched"
        /\ \E j \in DOMAIN inflight : inflight[j] = requests[i]

\* ------------------------------------------------------------------------
\* C20: parseSessionsFile classifies a session active exactly when now
\* minus its updatedAt is less than 300000 ms and idle otherwise; a session
\* with no updatedAt is aged from epoch 0 and is therefore idle.
\* ------------------------------------------------------------------------
C20_ActiveWithinWindow ==
    returned =>
        /\ Len(agents) = Len(registry)
        /\ \A i \in DOMAIN agents :
            IF Has(agents[i], "updatedAt")
            THEN /\ agents[i].ageMs = now - agents[i].updatedAt
                 /\ agents[i].status =
                        IF now - agents[i].updatedAt < ActiveWindowMs
                        THEN "active" ELSE "idle"
            ELSE /\ agents[i].ageMs = now
                 /\ agents[i].status = "idle"

\* The registry read has classified a session without updatedAt and one
\* updated just inside the window.
C20_Witness ==
    /\ returned
    /\ \E i, j \in DOMAIN agents :
        /\ ~Has(agents[i], "updatedAt")
        /\ agents[i].status = "idle"
        /\ Has(agents[j], "updatedAt")
        /\ agents[j].ageMs = ActiveWindowMs - 1
        /\ agents[j].status = "active"

\* ------------------------------------------------------------------------
\* C15: over parseSessionsFile followed by processInbox, a pending task is
\* dispatched in a tick only if the registry read for that tick holds no
\* session of the task's target pool (tech_team for coding, handyman
\* otherwise) updated less than 5 minutes ago, whatever the number of
\* sessions sharing that pool label.
\* ------------------------------------------------------------------------
\* The sessions of the registry that carry the pool label.
PoolSessions(label) ==
    {k \in DOMAIN registry : Has(registry[k], "label") /\ registry[k].label = label}

PoolBusy(label) ==
    \E k \in PoolSessions(label) :
        /\ Has(registry[k], "updatedAt")
        /\ now - registry[k].updatedAt < ActiveWindowMs

C15_DispatchOnlyToIdlePool ==
    [][TickStep =>
        \A f \in FileIds :
            RequestCount(f)' = 1 => ~PoolBusy(LabelOf(f))]_vars

\* C15 holds for the pool whose label parseSessionsFile leaves as it is,
\* tech_team, as long as no two sessions share it.
C15_OneSessionOfTechTeam ==
    [][TickStep =>
        \A f \in FileIds :
            ( /\ RequestCount(f)' = 1
              /\ LabelOf(f) = "tech_team"
              /\ Cardinality(PoolSessions("tech_team")) <= 1 ) =>
                ~PoolBusy(LabelOf(f))]_vars

\* ------------------------------------------------------------------------
\* C14: in every tick, for every content of the session registry (also one
\* that holds the primary session, key agent:main:main), the task list
\* handed to the publisher is the Router's output followed by the
\* session-derived task list in its own order, nothing dropped, and a
\* publish request carrying it is issued.
\* ------------------------------------------------------------------------
C14_PublishesRouterThenSessions ==
    returned =>
        /\ sessionTasks.defined
        /\ publish.issued
        /\ publish.tasks = tasks \o sessionTasks.list

\* C14 holds of every tick whose getTasks call resolves to a list with an
\* updatedAt in every entry.
C14_WhenSessionListUsable ==
    ( /\ returned
      /\ sessionTasks.defined
      /\ \A i \in DOMAIN sessionTasks.list : Has(sessionTasks.list[i], "updatedAt") ) =>
        /\ publish.issued
        /\ publish.tasks = tasks \o sessionTasks.list

\* ------------------------------------------------------------------------
\* C13: ticks do not overlap: a tick started by the scheduling loop runs to
\* completion before the next tick begins, whatever the duration of the
\* awaited steps relative to the 10 second interval.
\* ------------------------------------------------------------------------
C13_TicksDoNotOverlap == Len(runs) <= 1

\* What does hold: from processInbox to the health check a run is not
\* interleaved with any other step.
C13_SynchronousPartNotInterleaved ==
    [][returned => (~returned' /\ event' \in {"alert", "check", "rejected"})]_vars

\* ------------------------------------------------------------------------
\* C17: a health alert is sent only at a tick's health check, when at least
\* 3 publish failures have been recorded since the last successful publish
\* response and since the last alert; a successful response resets the
\* counter to 0, an alert resets it to 0, and the counter is below 3 right
\* after every health check.
\* ------------------------------------------------------------------------
C17_AlertAtThreeFailures ==
    [][/\ event' = "alert" =>
            /\ returned /\ ~returned'
            /\ sinceReset >= 3
            /\ consecutiveFailures' = 0
       /\ event' = "ok" => consecutiveFailures' = 0
       /\ event' \in {"alert", "check"} => consecutiveFailures' < 3
       /\ consecutiveFailures' = sinceReset']_vars

\* A health check has found three or more failures and has sent the alert.
C17_Witness ==
    /\ event = "alert"
    /\ consecutiveFailures = 0

\* ------------------------------------------------------------------------
\* C21: the list parseSessionsFile returns has the primary session first, at
\* most one entry carrying the primary label, and all other sessions after
\* it in ascending order of ageMs, for every registry content and order.
\* ------------------------------------------------------------------------
\* The entries of the returned list that carry the primary label.
PrimaryEntries == {i \in DOMAIN agents : agents[i].label = PrimaryLabel}

\* The sessions of the registry that the label rule takes for the main one.
PrimarySessions ==
    {k \in DOMAIN registry :
        registry[k].sessionId = MainSessionId \/ registry[k].key = MainKey}

PrimaryFirstThenByAge ==
    /\ Cardinality(PrimaryEntries) <= 1
    /\ PrimarySessions # {} => PrimaryEntries = {1}
    /\ \A i, j \in DOMAIN agents \ PrimaryEntries :
        i < j => agents[i].ageMs <= agents[j].ageMs
    /\ \A i \in PrimaryEntries, j \in DOMAIN agents \ PrimaryEntries : i < j

C21_PrimaryFirstThenByAge == returned => PrimaryFirstThenByAge

\* C21 holds of every registry in which at most one session has the main
\* session's key or id.
C21_WithOnePrimarySession ==
    (returned /\ Cardinality(PrimarySessions) <= 1) => PrimaryFirstThenByAge

\* ------------------------------------------------------------------------
\* Vocabulary of the title
\* ------------------------------------------------------------------------
\* The heading lines of the file, and its lines that are not blank.
HeadingLines == {i \in DOMAIN taskFile.content : isHeading(taskFile.content[i])}
TextLines == {i \in DOMAIN taskFile.content : trim(taskFile.content[i]) # <<>>}

First(S) == CHOOSE i \in S : \A j \in S : i <= j

\* The file name without its last piece, the extension.
WithoutExtension(file) == SubSeq(file, 1, Len(file) - 1)

\* name is file with its first ".md" taken out.
FirstMdRemoved(file, name) ==
    \E k \in DOMAIN file :
        /\ file[k] = ".md"
        /\ \A j \in 1..(k - 1) : file[j] # ".md"
        /\ name = SubSeq(file, 1, k - 1) \o SubSeq(file, k + 1, Len(file))

\* ------------------------------------------------------------------------
\* C22, as claimed: the title of a listed task is the text of the file's
\* first heading line if there is one, otherwise the first non-empty line of
\* the file cut to 50 characters, otherwise the file name without its .md
\* extension.
\* ------------------------------------------------------------------------
C22_TitleFromHeadingOrText ==
    title.derived =>
        title.text =
            IF HeadingLines # {}
            THEN headingText(taskFile.content[First(HeadingLines)])
            ELSE IF TextLines # {}
                 THEN substring0(trim(taskFile.content[First(TextLines)]), 50)
                 ELSE WithoutExtension(taskFile.file)

\* C22, amended: the title comes from the first line of the file alone.  If
\* that line starts with "# " or "## ", the title is the rest of the line,
\* trimmed and not cut; otherwise, if the first line is not blank, it is
\* that line trimmed and cut to 50 characters; otherwise it is the file name
\* with its first ".md" taken out.  No later line is looked at.
C22_TitleFromFirstLine ==
    title.derived =>
        IF 1 \in HeadingLines
        THEN /\ title.text = headingText(taskFile.content[1])
             /\ title.text = trim(title.text)
        ELSE IF 1 \in TextLines
             THEN /\ title.text = substring0(trim(taskFile.content[1]), 50)
                  /\ Len(title.text) <= 50
             ELSE FirstMdRemoved(taskFile.file, title.text)

\* A title has been taken from a first line that is no heading although a
\* later line is one.
C22_Witness ==
    /\ title.derived
    /\ 1 \notin HeadingLines
    /\ 1 \in TextLines
    /\ HeadingLines # {}
    /\ title.text = trim(taskFile.content[1])

\* ------------------------------------------------------------------------
\* C23: if every publish attempt fails and every response or error callback
\* is eventually delivered, a health alert is eventually sent, and alerts
\* keep recurring while the failures continue.
\* ------------------------------------------------------------------------
C23_AlertsKeepRecurring == []<>(event = "alert")

\* C23 holds whenever the ticks get as far as the publish request, as they
\* do with a registry that does not hold the main session.
C23_WhenTicksPublish == (registry = <<>>) => []<>(event = "alert")

\* With the main session in the registry no tick ever issues a publish
\* request or reaches the health check.
C23_NoPublishWithMainSession ==
    (registry # <<>>) => [](pending = 0 /\ consecutiveFailures = 0 /\ event # "alert")

\* ------------------------------------------------------------------------
\* The steps of a run of runHealthCheck, read from its history.
\* ------------------------------------------------------------------------
Steps(x) == {i \in DOMAIN history : history[i] = x}
FailedChecks == {i \in DOMAIN history : history[i] \in CheckOutcomes /\ ~success(history[i])}
AttemptsUpTo(i) == Cardinality({j \in Steps("attempt") : j <= i})

\* ------------------------------------------------------------------------
\* C24: runHealthCheck makes at most 3 attempts, strictly one after another,
\* stops at the first attempt that returns HTTP 200 and then reports healthy
\* with attempts equal to the number of attempts made; it waits the retry
\* delay only between attempts, never after the last one, and reports
\* unhealthy with attempts = 3 exactly when all 3 attempts fail.
\* ------------------------------------------------------------------------
C24_AttemptsAndDelays ==
    /\ Cardinality(Steps("attempt")) <= 3
    /\ openChecks <= 1
    /\ \A i \in Steps("attempt") :
          /\ i + 1 \in DOMAIN history => history[i + 1] \in CheckOutcomes
          /\ i > 1 => history[i - 1] = "sleep"
    /\ \A i \in Steps("200") :
          /\ i = Len(history)
          /\ checkResult = Result(TRUE, Cardinality(Steps("attempt")))
    /\ \A i \in FailedChecks :
          (AttemptsUpTo(i) < 3) <=> (i + 1 \in Steps("sleep"))
    /\ \A i \in Steps("sleep") : i - 1 \in FailedChecks /\ AttemptsUpTo(i) < 3
    /\ checkResult.reported =>
          IF checkResult.healthy
          THEN /\ Steps("200") # {}
               /\ checkResult.attempts = Cardinality(Steps("attempt"))
          ELSE /\ Cardinality(FailedChecks) = 3
               /\ checkResult.attempts = 3
    /\ Cardinality(FailedChecks) = 3 => ~checkResult.healthy

\* A run that failed once, waited, and reported healthy after its second
\* attempt.
C24_Witness ==
    /\ checkResult = Result(TRUE, 2)
    /\ Cardinality(Steps("sleep")) = 1
    /\ Cardinality(FailedChecks) = 1

\* ------------------------------------------------------------------------
\* C25: a Telegram alert is requested at most once per run, and only after
\* all 3 attempts have failed; no alert is requested in a run where any
\* attempt succeeded, and when the bot token or the chat id is not
\* configured no request is sent at all.
\* ------------------------------------------------------------------------
C25_AlertOnceAfterAllAttemptsFailed ==
    /\ Cardinality(Steps("alert")) <= 1
    /\ \A i \in Steps("alert") :
          Cardinality({j \in FailedChecks : j < i}) = 3
    /\ Steps("200") # {} => Steps("alert") = {}
    /\ (~config.telegramBotToken \/ ~config.telegramChatId) => Steps("alert") = {}

\* The alert has been requested.
C25_Witness ==
    /\ Steps("alert") # {}
    /\ config.telegramBotToken /\ config.telegramChatId

\* A run whose three attempts failed returns without any request when one of
\* the two settings is missing.
C25_WitnessNotConfigured ==
    /\ Cardinality(FailedChecks) = 3
    /\ checkResult.reported
    /\ config.telegramBotToken /\ ~config.telegramChatId
    /\ Steps("alert") = {}

\* ------------------------------------------------------------------------
\* C26: runHealthCheck always terminates with a result: every checkHealth
\* call resolves (on response, error or timeout, never rejecting, with
\* success true only for status 200), and the run completes after the alert
\* step whether the alert request gets a response, an error or no answer.
\* ------------------------------------------------------------------------
C26_CompletesAfterAlertStep ==
    [](checkAt = "sendTelegramAlert" => <>checkResult.reported)

\* The run resolves to a result, whatever its configuration.
C26_RunAlwaysReturns == <>checkResult.reported

\* With a dashboard URL that client.get accepts, the run returns whenever
\* the alert request, if one is sent, is answered.
C26_ReturnsWhenAlertAnswered ==
    (config.urlSupported /\ (config.telegramAnswers \/ ~telegramConfigured(config)))
        => <>checkResult.reported

\* An alert request that gets no answer keeps the run from returning.
C26_NoReturnWithoutAnswer ==
    (Steps("alert") # {} /\ ~config.telegramAnswers) => ~checkResult.reported

\* A run is waiting for the answer to its alert request, which never comes.
C26_WaitingForAnswer ==
    /\ checkAt = "sendTelegramAlert"
    /\ ~config.telegramAnswers

\* checkHealth resolves with success true only for status 200: a run
\* reports healthy only after a response with status 200.
C26_HealthyOnlyOnStatus200 ==
    (checkResult.reported /\ checkResult.healthy) => history[Len(history)] = "200"

====
